---- MODULE Spec2Model ----
(***************************************************************************)
(* Model of src/liballoc/range.rs: the RangeArgument trait (start / end    *)
(* bound accessors of the built-in range types and of explicit bound       *)
(* pairs) and OrderedRangeArgument::range_cmp, which classifies a value as *)
(* Below, Inside or Above a range.                                         *)
(*                                                                         *)
(* The value type T is a totally ordered type; it is modelled by the       *)
(* integers 0..MaxVal with their usual order.  A reference &T is modelled  *)
(* by the value it points to: Ord on references compares the referents.    *)
(***************************************************************************)
EXTENDS Integers, FiniteSets, Sequences, TLC

\* Largest value of the ordered type T that is enumerated.
MaxVal == 3

Vals == 0..MaxVal

----------------------------------------------------------------------------
(* enum Bound<T> { Included(T), Excluded(T), Unbounded } *)

Included(x) == [tag |-> "Included", val |-> x]

Excluded(x) == [tag |-> "Excluded", val |-> x]

Unbounded == [tag |-> "Unbounded"]

Bounds == {Included(x) : x \in Vals} \cup {Excluded(x) : x \in Vals} \cup {Unbounded}

(* enum RelationToRange { Above, Inside, Below } *)

Below == "Below"

Inside == "Inside"

Above == "Above"

RelationToRange == {Below, Inside, Above}

----------------------------------------------------------------------------
(* The range-like values: core::ops range structs and explicit pairs. *)

RangeFull == [shape |-> "RangeFull"]

RangeFrom(a) == [shape |-> "RangeFrom", start |-> a]

RangeTo(b) == [shape |-> "RangeTo", end |-> b]

Range(a, b) == [shape |-> "Range", start |-> a, end |-> b]

RangeInclusive(a, b) == [shape |-> "RangeInclusive", start |-> a, end |-> b]

RangeToInclusive(b) == [shape |-> "RangeToInclusive", end |-> b]

\* (Bound<T>, Bound<T>): the pair owns its bound values.
BoundPair(x, y) == [shape |-> "BoundPair", p0 |-> x, p1 |-> y]

\* (Bound<&'a T>, Bound<&'a T>): the pair holds references.
BoundPairRef(x, y) == [shape |-> "BoundPairRef", p0 |-> x, p1 |-> y]

Ranges ==
    {RangeFull}
    \cup {RangeFrom(a) : a \in Vals}
    \cup {RangeTo(b) : b \in Vals}
    \cup {Range(a, b) : a \in Vals, b \in Vals}
    \cup {RangeInclusive(a, b) : a \in Vals, b \in Vals}
    \cup {RangeToInclusive(b) : b \in Vals}
    \cup {BoundPair(x, y) : x \in Bounds, y \in Bounds}
    \cup {BoundPairRef(x, y) : x \in Bounds, y \in Bounds}

----------------------------------------------------------------------------
(* impl RangeArgument<T> for ... : one start and one end per shape. *)

RangeFull_start(self) == Unbounded

RangeFull_end(self) == Unbounded

\* Slip: the start of a.. tagged as excluded.
RangeFrom_start_excluded(self) == Excluded(self.start)

RangeFrom_start(self) == Included(self.start)

RangeFrom_end(self) == Unbounded

RangeTo_start(self) == Unbounded

\* Slip: the end of ..b tagged as included, as in ..=b.
RangeTo_end_included(self) == Included(self.end)

RangeTo_end(self) == Excluded(self.end)

Range_start(self) == Included(self.start)

Range_end(self) == Excluded(self.end)

RangeInclusive_start(self) == Included(self.start)

\* Slip: the end of a..=b tagged as excluded, as in a..b.
RangeInclusive_end_excluded(self) == Excluded(self.end)

RangeInclusive_end(self) == Included(self.end)

RangeToInclusive_start(self) == Unbounded

RangeToInclusive_end(self) == Included(self.end)

\* Slip: the Excluded arm of the match rebuilds an Included bound.
BoundPair_start_retagged(self) ==
    CASE self.p0.tag = "Included" -> Included(self.p0.val)
      [] self.p0.tag = "Excluded" -> Included(self.p0.val)
      [] self.p0.tag = "Unbounded" -> Unbounded

\* match *self { (Included(ref start), _) => Included(start), ... }
BoundPair_start(self) ==
    CASE self.p0.tag = "Included" -> Included(self.p0.val)
      [] self.p0.tag = "Excluded" -> Excluded(self.p0.val)
      [] self.p0.tag = "Unbounded" -> Unbounded

\* match *self { (_, Included(ref end)) => Included(end), ... }
BoundPair_end(self) ==
    CASE self.p1.tag = "Included" -> Included(self.p1.val)
      [] self.p1.tag = "Excluded" -> Excluded(self.p1.val)
      [] self.p1.tag = "Unbounded" -> Unbounded

\* Slip: start returns the second component of the pair.
BoundPairRef_start_second(self) == self.p1

BoundPairRef_start(self) == self.p0

BoundPairRef_end(self) == self.p1

\* Static dispatch of RangeArgument::start on the type of self.
start(self) ==
    CASE self.shape = "RangeFull" -> RangeFull_start(self)
      [] self.shape = "RangeFrom" -> RangeFrom_start(self)
      [] self.shape = "RangeTo" -> RangeTo_start(self)
      [] self.shape = "Range" -> Range_start(self)
      [] self.shape = "RangeInclusive" -> RangeInclusive_start(self)
      [] self.shape = "RangeToInclusive" -> RangeToInclusive_start(self)
      [] self.shape = "BoundPair" -> BoundPair_start(self)
      [] self.shape = "BoundPairRef" -> BoundPairRef_start(self)

\* Static dispatch of RangeArgument::end on the type of self.
end(self) ==
    CASE self.shape = "RangeFull" -> RangeFull_end(self)
      [] self.shape = "RangeFrom" -> RangeFrom_end(self)
      [] self.shape = "RangeTo" -> RangeTo_end(self)
      [] self.shape = "Range" -> Range_end(self)
      [] self.shape = "RangeInclusive" -> RangeInclusive_end(self)
      [] self.shape = "RangeToInclusive" -> RangeToInclusive_end(self)
      [] self.shape = "BoundPair" -> BoundPair_end(self)
      [] self.shape = "BoundPairRef" -> BoundPairRef_end(self)

----------------------------------------------------------------------------
(* impl OrderedRangeArgument<T> for R : range_cmp *)

\* Slip: the Excluded start arm compares with < instead of <=.
start_match_excluded_lt(bound, value) ==
    CASE bound.tag = "Excluded" -> value < bound.val
      [] bound.tag = "Included" -> value < bound.val
      [] bound.tag = "Unbounded" -> FALSE

\* Slip: the Included start arm compares with > instead of <.
start_match_included_gt(bound, value) ==
    CASE bound.tag = "Excluded" -> value <= bound.val
      [] bound.tag = "Included" -> value > bound.val
      [] bound.tag = "Unbounded" -> FALSE

\* The first match of range_cmp: TRUE when it takes `return Below`.
start_match(bound, value) ==
    CASE bound.tag = "Excluded" -> value <= bound.val
      [] bound.tag = "Included" -> value < bound.val
      [] bound.tag = "Unbounded" -> FALSE

\* Slip: the Included end arm compares with >= instead of >.
end_match_included_ge(bound, value) ==
    CASE bound.tag = "Excluded" -> value >= bound.val
      [] bound.tag = "Included" -> value >= bound.val
      [] bound.tag = "Unbounded" -> FALSE

\* Slip: the Excluded end arm compares with > instead of >=.
end_match_excluded_gt(bound, value) ==
    CASE bound.tag = "Excluded" -> value > bound.val
      [] bound.tag = "Included" -> value > bound.val
      [] bound.tag = "Unbounded" -> FALSE

\* The second match of range_cmp: TRUE when it takes `return Above`.
end_match(bound, value) ==
    CASE bound.tag = "Excluded" -> value >= bound.val
      [] bound.tag = "Included" -> value > bound.val
      [] bound.tag = "Unbounded" -> FALSE

\* Slip: the end bound is inspected before the start bound.
range_cmp_end_first(self, value) ==
    IF end_match(end(self), value) THEN Above
    ELSE IF start_match(start(self), value) THEN Below
    ELSE Inside

range_cmp(self, value) ==
    IF start_match(start(self), value) THEN Below
    ELSE IF end_match(end(self), value) THEN Above
    ELSE Inside

----------------------------------------------------------------------------
(* State: a range-like value and what its callers have observed. *)

\* A bound slot no call has filled yet.
NoBound == [tag |-> "None"]

\* The pair slot before the pair is built.
NoPair == [shape |-> "None"]

\* The record of one range_cmp call: its argument and its return value.
Call(v, r) == [value |-> v, ret |-> r]

VARIABLES
    range,        \* the range-like value under test
    start_ret,    \* what range.start() returned, or NoBound
    end_ret,      \* what range.end() returned, or NoBound
    calls,        \* the latest two range.range_cmp calls, most recent last
    pair,         \* the pair (range.start(), range.end()), or NoPair
    pair_calls    \* the latest pair.range_cmp call, if any

vars == <<range, start_ret, end_ret, calls, pair, pair_calls>>

Init ==
    /\ range \in Ranges
    /\ start_ret = NoBound
    /\ end_ret = NoBound
    /\ calls = <<>>
    /\ pair = NoPair
    /\ pair_calls = <<>>

\* A caller evaluates range.start().
CallStart ==
    /\ start_ret' = start(range)
    /\ UNCHANGED <<range, end_ret, calls, pair, pair_calls>>

\* A caller evaluates range.end().
CallEnd ==
    /\ end_ret' = end(range)
    /\ UNCHANGED <<range, start_ret, calls, pair, pair_calls>>

\* A caller evaluates range.range_cmp(&v).
CallRangeCmp ==
    \E v \in Vals :
        /\ calls' = IF calls = <<>>
                    THEN <<Call(v, range_cmp(range, v))>>
                    ELSE <<calls[Len(calls)], Call(v, range_cmp(range, v))>>
        /\ UNCHANGED <<range, start_ret, end_ret, pair, pair_calls>>

\* A caller builds the explicit pair (range.start(), range.end()).
MakePair ==
    /\ pair' = BoundPairRef(start(range), end(range))
    /\ pair_calls' = <<>>
    /\ UNCHANGED <<range, start_ret, end_ret, calls>>

\* A caller evaluates pair.range_cmp(&v) on the pair it built.
CallRangeCmpPair ==
    /\ pair # NoPair
    /\ \E v \in Vals :
        pair_calls' = <<Call(v, range_cmp(pair, v))>>
    /\ UNCHANGED <<range, start_ret, end_ret, calls, pair>>

Next ==
    \/ CallStart
    \/ CallEnd
    \/ CallRangeCmp
    \/ MakePair
    \/ CallRangeCmpPair

Spec == Init /\ [][Next]_vars

Calls == {Call(v, r) : v \in Vals, r \in RelationToRange}

TypeOK ==
    /\ range \in Ranges
    /\ start_ret \in Bounds \cup {NoBound}
    /\ end_ret \in Bounds \cup {NoBound}
    /\ calls \in Seq(Calls) /\ Len(calls) <= 2
    /\ pair \in Ranges \cup {NoPair}
    /\ pair_calls \in Seq(Calls) /\ Len(pair_calls) <= 1

\* The latest range.range_cmp call and the one before it.
called == calls # <<>>

value == calls[Len(calls)].value

ret == calls[Len(calls)].ret

called_twice == Len(calls) = 2

prev_value == calls[1].value

prev_ret == calls[1].ret

\* The latest pair.range_cmp call.
pair_called == pair_calls # <<>>

pair_value == pair_calls[1].value

pair_ret == pair_calls[1].ret

----------------------------------------------------------------------------
(* Properties *)

IsBounded(b) == b.tag \in {"Included", "Excluded"}

\* Two bounds carry the same tag and, when they carry one, the same value.
SameBound(b1, b2) ==
    /\ b1.tag = b2.tag
    /\ IsBounded(b1) => b1.val = b2.val

\* The reference classifier of a value against a start and an end bound.
Classify(s, e, v) ==
    IF (s.tag = "Excluded" /\ v <= s.val) \/ (s.tag = "Included" /\ v < s.val)
    THEN Below
    ELSE IF (e.tag = "Excluded" /\ v >= e.val) \/ (e.tag = "Included" /\ v > e.val)
    THEN Above
    ELSE Inside

\* C1: every range_cmp(r, v) result equals the reference classifier applied
\* to r.start(), r.end() and v: Below when the start bound rejects v
\* (v <= s for Excluded(s), v < s for Included(s)), otherwise Above when the
\* end bound rejects v (v >= e for Excluded(e), v > e for Included(e)),
\* otherwise Inside; an Unbounded side imposes no constraint.
C1_MatchesReference ==
    called => ret = Classify(start(range), end(range), value)

\* An included end bound is hit exactly: the tie-break at boundary equality.
C1_Witness ==
    /\ called
    /\ end(range).tag = "Included"
    /\ start(range).tag = "Excluded"
    /\ value = end(range).val
    /\ ret = Inside

\* C2: for each built-in range shape start() and end() return exactly the
\* tagged bounds RangeFull -> (Unbounded, Unbounded), a.. -> (Included(a),
\* Unbounded), ..b -> (Unbounded, Excluded(b)), a..b -> (Included(a),
\* Excluded(b)), a..=b -> (Included(a), Included(b)), ..=b -> (Unbounded,
\* Included(b)), for all a and b, a > b included.
C2_BuiltinBounds ==
    /\ start_ret # NoBound =>
         /\ range.shape = "RangeFull" => start_ret.tag = "Unbounded"
         /\ range.shape = "RangeFrom" =>
              start_ret.tag = "Included" /\ start_ret.val = range.start
         /\ range.shape = "RangeTo" => start_ret.tag = "Unbounded"
         /\ range.shape = "Range" =>
              start_ret.tag = "Included" /\ start_ret.val = range.start
         /\ range.shape = "RangeInclusive" =>
              start_ret.tag = "Included" /\ start_ret.val = range.start
         /\ range.shape = "RangeToInclusive" => start_ret.tag = "Unbounded"
    /\ end_ret # NoBound =>
         /\ range.shape = "RangeFull" => end_ret.tag = "Unbounded"
         /\ range.shape = "RangeFrom" => end_ret.tag = "Unbounded"
         /\ range.shape = "RangeTo" =>
              end_ret.tag = "Excluded" /\ end_ret.val = range.end
         /\ range.shape = "Range" =>
              end_ret.tag = "Excluded" /\ end_ret.val = range.end
         /\ range.shape = "RangeInclusive" =>
              end_ret.tag = "Included" /\ end_ret.val = range.end
         /\ range.shape = "RangeToInclusive" =>
              end_ret.tag = "Included" /\ end_ret.val = range.end

\* Both accessors were called on an end-bounded-only range ..b.
C2_Witness ==
    /\ range.shape = "RangeTo"
    /\ start_ret # NoBound
    /\ end_ret # NoBound

IsPair == range.shape \in {"BoundPair", "BoundPairRef"}

\* C3: for an explicit bound pair (x, y), owned or by reference, start()
\* returns a bound with the tag and value of x and end() one with the tag and
\* value of y, for all nine tag combinations; the start result does not
\* depend on y nor the end result on x.
C3_PairBounds ==
    IsPair =>
        /\ start_ret # NoBound =>
             /\ SameBound(start_ret, range.p0)
             /\ \A y \in Bounds :
                    SameBound(start([range EXCEPT !.p1 = y]), start_ret)
        /\ end_ret # NoBound =>
             /\ SameBound(end_ret, range.p1)
             /\ \A x \in Bounds :
                    SameBound(end([range EXCEPT !.p0 = x]), end_ret)

\* Both accessors were called on an owned pair that is excluded on both sides.
C3_Witness ==
    /\ range.shape = "BoundPair"
    /\ range.p0.tag = "Excluded"
    /\ range.p1.tag = "Excluded"
    /\ start_ret # NoBound
    /\ end_ret # NoBound

\* C4: for a start-bounded range a.. and every value v, range_cmp returns
\* Below when v < a, Inside when v = a and Inside when v > a; never Above.
C4_RangeFrom ==
    (range.shape = "RangeFrom" /\ called) =>
        /\ value < range.start => ret = Below
        /\ value = range.start => ret = Inside
        /\ value > range.start => ret = Inside
        /\ ret # Above

\* a.. was asked about a value below a and then about a itself.
C4_Witness ==
    /\ range.shape = "RangeFrom"
    /\ called_twice
    /\ prev_value < range.start
    /\ value = range.start

IsExcludedFrom ==
    /\ IsPair
    /\ range.p0.tag = "Excluded"
    /\ range.p1.tag = "Unbounded"

\* C5: for the explicit pair (Excluded(a), Unbounded) and every value v,
\* range_cmp returns Below when v = a or v < a, and Inside when v > a.
C5_ExcludedStart ==
    (IsExcludedFrom /\ called) =>
        /\ value <= range.p0.val => ret = Below
        /\ value > range.p0.val => ret = Inside

\* (Excluded(a), Unbounded) was asked about a value above a and then about a.
C5_Witness ==
    /\ IsExcludedFrom
    /\ called_twice
    /\ prev_value > range.p0.val
    /\ value = range.p0.val

\* C6: for a..b with a < b and every value v, range_cmp returns Below when
\* v < a, Inside when a <= v < b, and Above when v >= b.
C6_RangeExclusiveEnd ==
    (range.shape = "Range" /\ range.start < range.end /\ called) =>
        /\ value < range.start => ret = Below
        /\ (range.start <= value /\ value < range.end) => ret = Inside
        /\ value >= range.end => ret = Above

\* a..b with a < b was asked about a and then about b.
C6_Witness ==
    /\ range.shape = "Range"
    /\ range.start < range.end
    /\ called_twice
    /\ prev_value = range.start
    /\ value = range.end

\* C7: for a..=b with a <= b and every value v, range_cmp returns Inside
\* when a <= v <= b (v = b and the single-point range a = b included),
\* Above when v > b and Below when v < a.
C7_RangeInclusive ==
    (range.shape = "RangeInclusive" /\ range.start <= range.end /\ called) =>
        /\ (range.start <= value /\ value <= range.end) => ret = Inside
        /\ value > range.end => ret = Above
        /\ value < range.start => ret = Below

\* The single-point range a..=a was asked about a value above a and then
\* about a.
C7_Witness ==
    /\ range.shape = "RangeInclusive"
    /\ range.start = range.end
    /\ called_twice
    /\ prev_value > range.end
    /\ value = range.end

\* C8: round trip: the explicit pair p = (r.start(), r.end()) has
\* p.start() = r.start() and p.end() = r.end(), and range_cmp(p, v) gives
\* the same result as range_cmp(r, v) for every value v.
C8_RoundTrip ==
    pair # NoPair =>
        /\ SameBound(start(pair), start(range))
        /\ SameBound(end(pair), end(range))
        /\ pair_called => pair_ret = range_cmp(range, pair_value)
        /\ (pair_called /\ called /\ pair_value = value) => pair_ret = ret

\* a..b and the pair built from it were both asked about b.
C8_Witness ==
    /\ range.shape = "Range"
    /\ pair # NoPair
    /\ pair_called
    /\ called
    /\ pair_value = value
    /\ value = range.end

\* The start test and the end test of the claim, on the bounds of range.
StartRejects(v) ==
    \/ start(range).tag = "Included" /\ v < start(range).val
    \/ start(range).tag = "Excluded" /\ v <= start(range).val

EndRejects(v) ==
    \/ end(range).tag = "Included" /\ v > end(range).val
    \/ end(range).tag = "Excluded" /\ v >= end(range).val

\* C9: the start bound is inspected first: for a range bounded on both
\* sides, inverted and empty ones included, a value the start test rejects
\* is Below even when the end test rejects it too, and Above is returned
\* only for values that pass the start test.
C9_StartFirst ==
    (called /\ IsBounded(start(range)) /\ IsBounded(end(range))) =>
        /\ StartRejects(value) => ret = Below
        /\ ret = Above => ~StartRejects(value)

\* An inverted range was asked about a value that fails both tests.
C9_Witness ==
    /\ called
    /\ IsBounded(start(range))
    /\ IsBounded(end(range))
    /\ start(range).val > end(range).val
    /\ StartRejects(value)
    /\ EndRejects(value)

\* The order Below < Inside < Above.
Rank(r) == CASE r = Below -> 0 [] r = Inside -> 1 [] r = Above -> 2

\* The bounds of range admit the value w.
Admits(w) == ~StartRejects(w) /\ ~EndRejects(w)

\* The range is bounded on both sides and its bounds admit no member.
NoMember ==
    /\ IsBounded(start(range))
    /\ IsBounded(end(range))
    /\ \A w \in Vals : ~Admits(w)

\* C10: range_cmp is monotone in the value for every fixed range: for
\* v1 <= v2, range_cmp(r, v1) <= range_cmp(r, v2) in the order
\* Below < Inside < Above; so above an Above value all is Above, below a
\* Below value all is Below, and a range that admits no member never yields
\* Inside.
C10_Monotone ==
    /\ called_twice =>
         /\ prev_value <= value => Rank(prev_ret) <= Rank(ret)
         /\ value <= prev_value => Rank(ret) <= Rank(prev_ret)
         /\ (prev_ret = Above /\ value >= prev_value) => ret = Above
         /\ (prev_ret = Below /\ value <= prev_value) => ret = Below
    /\ (called /\ NoMember) => ret # Inside

\* A range without members was asked about a Below value and then about an
\* Above one.
C10_Witness ==
    /\ NoMember
    /\ called_twice
    /\ prev_value < value
    /\ prev_ret = Below
    /\ ret = Above

====
